---- MODULE Spec2Model ----
(***************************************************************************)
(* Model of the circular-3d backend: the upload handler, status query and  *)
(* delete handler of backend/main.py, the Celery task of backend/tasks.py  *)
(* and the photogrammetry processor of backend/photogrammetry.py, for one  *)
(* scan (Spec).  The fallback mesh, the two point decoders and the hull    *)
(* writer are also run on their own, over drawn inputs (SpecMesh,          *)
(* SpecText, SpecPly, SpecHull).                                           *)
(*                                                                         *)
(* The API process (main.py) and the Celery worker (tasks.py) are separate *)
(* operating-system processes that share the directory uploads/<scan_id>   *)
(* and the Celery result backend.  Handlers of main.py contain no await,   *)
(* so they are atomic with respect to each other, but every statement of   *)
(* a handler interleaves with the worker.  A file written with             *)
(* open(path, 'w') + json.dump is empty from the open until the close.     *)
(*                                                                         *)
(* Python dicts are TLA+ functions whose DOMAIN is the set of keys, so a   *)
(* key being present is k \in DOMAIN d and dict.update is Update.          *)
(* Timestamps (created_at, last_updated), file names and sizes are left    *)
(* out of the records: no branch of the code reads them.                   *)
(***************************************************************************)
EXTENDS Integers, Sequences, FiniteSets, TLC

(* ------------------------------ bounds ------------------------------- *)

\* Number of photos in an uploaded archive.
MaxPhotos == 2

\* Largest number of points an exported point file or text model holds.
MaxPoints == 4

\* Largest dimension, in centimetres, of the boxes of SpecMesh.
MaxDim == 4

\* Lines of a points3D.txt drawn as input.
MaxLines == 3

\* Vertices a points.ply drawn as input declares.
MaxVertices == 5

\* Points handed to the hull writer.
MaxHullPoints == 5

\* Reads at the end of the file the header loop of the PLY decoder is followed for.
MaxSpins == 2

(* ----------------------------- helpers ------------------------------- *)

EmptyDict == [k \in {} |-> TRUE]

\* dict.update(e): the keys of e override those of d.
Update(d, e) ==
    [k \in (DOMAIN d) \cup (DOMAIN e) |-> IF k \in DOMAIN e THEN e[k] ELSE d[k]]

\* dict.get(k, default)
Get(d, k, default) == IF k \in DOMAIN d THEN d[k] ELSE default

\* JSON scalar values of the metadata: a number or a string.
JNum(n) == [t |-> "num", v |-> n]
JStr(s) == [t |-> "str", s |-> s]

\* Python's None, for the string-valued fields that may hold it.
None == "None"

\* A file on disk: absent, empty (opened for writing, not yet closed),
\* holding a JSON document, or garbled (two overlapping writers).
Absent == [st |-> "absent", data |-> EmptyDict]
Empty == [st |-> "empty", data |-> EmptyDict]
Garbled == [st |-> "garbled", data |-> EmptyDict]
Holding(d) == [st |-> "ok", data |-> d]

\* json.load raises JSONDecodeError on an empty or garbled file.
Unreadable(f) == f.st \in {"empty", "garbled"}

\* Closing a file opened with 'w' writes the buffered document d from offset 0.
\* When another writer has written a longer document since this writer's open
\* truncated the file, the tail of that document stays behind d and the file is
\* no JSON document any more.  A file unlinked since the open (rmtree) stays
\* absent: the document goes to the unlinked inode.
Closed(f, d, shorter) ==
    IF f.st = "absent" THEN Absent
    ELSE IF shorter /\ f.st = "ok" THEN Garbled
    ELSE Holding(d)

\* A log extended by x, unless x is what it ends with.
Note(log, x) == IF log # <<>> /\ log[Len(log)] = x THEN log ELSE Append(log, x)

\* A log extended by the values of xs, a sequence of at most one value.
NoteAll(log, xs) == IF xs = <<>> THEN log ELSE Note(log, xs[1])

\* The stage and progress a reader finds in a file, if it finds them.
StageIn(f) ==
    IF f.st = "ok" /\ {"stage", "progress"} \subseteq DOMAIN f.data
    THEN <<[stage |-> f.data.stage, progress |-> f.data.progress]>>
    ELSE <<>>

\* The status a reader finds in a file, if it finds one.
StatusIn(f) == IF f.st = "ok" /\ "status" \in DOMAIN f.data THEN <<f.data.status>> ELSE <<>>

(* -------------------- constants of the program ----------------------- *)

\* photogrammetry.py: dims.get('length', 50), ('width', 50), ('height', 100)
DefaultLength == 50
DefaultWidth == 50
DefaultHeight == 100

\* photogrammetry.py: "/ 100  # Convert cm to meters"
CmPerMetre == 100

\* photogrammetry.py: "if len(points) >= 4"
MinHullPoints == 4

\* InitializingData with a progress above that of the next update.
InitializingDataHigh == [stage |-> "initializing", progress |-> 20]

\* tasks.py: the data of the two progress updates and of the SUCCESS state.
InitializingData == [stage |-> "initializing", progress |-> 0]
ExtractingData == [stage |-> "extracting_features", progress |-> 10]
CompletedProgress == 100

\* main.py: task.id of the one task scheduled for the scan.
TaskId == "task-1"

TerminalStatus == {"completed", "failed"}

(* ------------------------------ inputs ------------------------------- *)

Dims(l, w, h) == [length |-> l, width |-> w, height |-> h]

\* The metadata documents a caller uploads: without dimensions, with the
\* dimensions of the spec's scenario, with only one dimension, and with a
\* zero, a negative and a non-numeric field.
MetadataInputs ==
    { [photoCount |-> JNum(MaxPhotos)],
      [dimensions |-> Dims(JNum(50), JNum(50), JNum(100))],
      [dimensions |-> [length |-> JNum(30)]],
      [dimensions |-> Dims(JNum(0), JNum(50), JNum(100))],
      [dimensions |-> Dims(JNum(50), JNum(0 - 20), JNum(100))],
      [dimensions |-> Dims(JNum(50), JNum(50), JStr("abc"))] }

\* The uploaded archive: not a ZIP file, or a ZIP file of photos.
ArchiveInputs ==
    {[zip |-> FALSE, photos |-> 0], [zip |-> TRUE, photos |-> MaxPhotos]}

VARIABLES
    upc,            \* position of upload_scan in the API process
    scans_db,       \* main.py scans_db: <<>> or <<scan record>>
    upload_dir,     \* uploads/<scan_id> exists
    photos_zip,     \* uploads/<scan_id>/photos.zip
    metadata_file,  \* uploads/<scan_id>/metadata.json
    status_file,    \* uploads/<scan_id>/status.json
    task_msg,       \* the broker's queue: <<>> or <<task arguments>>
    celery,         \* the result backend's entry of the task: state and info
    wpc,            \* position of process_photogrammetry in the worker
    uss,            \* the frame of the running update_scan_status call
    stage,          \* the external command the worker is blocked on
    stage_log,      \* the external commands invoked so far, with their exit
    work,           \* processing/<scan_id>: the directory, sparse model, exported files, mesh
    ps,             \* locals of the task: metadata, photo_count, results, models, error, hull
    result,         \* what process_scan returned
    resp,           \* the last response of the API process to a request about the scan
    seen,           \* the progress values the status queries returned, in order
    held,           \* the status values each store has held, in order, and the
                    \* stage and progress values status.json has held (durable)
    dec             \* the file, cursor and locals of a point decoder or of the hull
                    \* writer, in the specifications that run one on its own

vars == <<upc, scans_db, upload_dir, photos_zip, metadata_file, status_file,
          task_msg, celery, wpc, uss, stage, stage_log, work, ps, result,
          resp, seen, held, dec>>

apiVars == <<upc, scans_db, resp, seen, held>>
uploadFiles == <<upload_dir, photos_zip>>
workerVars == <<wpc, uss, stage, stage_log, work, ps, result>>
scanVars == <<stage, stage_log, work, ps, result>>
mainVars == <<apiVars, uploadFiles, metadata_file, status_file, task_msg, celery,
              workerVars>>

NoFrame == [status |-> None, data |-> EmptyDict, site |-> None,
            cur |-> EmptyDict, meta |-> EmptyDict]

\* processing/<scan_id>: the directory does not exist.
NoWork == [dir |-> FALSE, sparse_model |-> FALSE, points_ply |-> <<>>,
           model_txt |-> <<>>, sparse_txt |-> <<>>, mesh |-> <<>>]

\* No decoder and no hull writer is running.
NoDec == [pc |-> "none"]

\* hull: whether ConvexHull was called on the decoded points and formed a
\* hull ("formed") or raised ("degenerate").
NoLocals == [metadata |-> EmptyDict, photo_count |-> 0, results |-> EmptyDict,
             models |-> EmptyDict, error |-> None, hull |-> "none"]

\* No upload was made and no task has started.
Idle ==
    /\ upc = "idle"
    /\ scans_db = <<>>
    /\ upload_dir = FALSE
    /\ photos_zip = <<>>
    /\ metadata_file = Absent
    /\ status_file = Absent
    /\ task_msg = <<>>
    /\ celery = [state |-> "PENDING", info |-> EmptyDict]
    /\ wpc = "idle"
    /\ uss = NoFrame
    /\ stage = None
    /\ stage_log = <<>>
    /\ work = NoWork
    /\ ps = NoLocals
    /\ result = EmptyDict
    /\ resp = EmptyDict
    /\ seen = [record |-> <<>>, task |-> <<>>]
    /\ held = [status_file |-> <<>>, metadata_file |-> <<>>, scans_db |-> <<>>,
               durable |-> <<>>]

Init ==
    /\ Idle
    /\ dec = NoDec

(* ------------------------- main.py: upload_scan ----------------------- *)

\* lines 94, 158-159: json.loads(metadata) raises, the handler answers 400.
UploadInvalidJson ==
    /\ upc = "idle"
    /\ upc' = "rejected"
    /\ UNCHANGED <<scans_db, resp, seen, held, uploadFiles, metadata_file, status_file,
                   task_msg, celery, workerVars>>
    /\ UNCHANGED dec

ScanRecord(m) ==
    [uuid |-> "scan-1", status |-> "uploaded", metadata |-> m,
     processing_started |-> FALSE, processing_completed |-> FALSE,
     task_id |-> None]

\* lines 94-127: parse the metadata, create the directory, save the archive,
\* write metadata.json and register the record.  Nothing validates m.
UploadCreate ==
    /\ upc = "idle"
    /\ \E m \in MetadataInputs, a \in ArchiveInputs :
          /\ upload_dir' = TRUE
          /\ photos_zip' = <<a>>
          /\ metadata_file' = Holding(ScanRecord(m))
          /\ scans_db' = <<ScanRecord(m)>>
    /\ held' = [held EXCEPT !.metadata_file = Note(@, "uploaded"),
                            !.scans_db = Note(@, "uploaded")]
    /\ upc' = "created"
    /\ UNCHANGED <<resp, seen, status_file, task_msg, celery, workerVars>>
    /\ UNCHANGED dec

\* lines 131-135: process_photogrammetry.delay(...)
UploadSchedule ==
    /\ upc = "created"
    /\ task_msg' = <<[scan_id |-> "scan-1", metadata |-> scans_db[1].metadata]>>
    /\ upc' = "scheduled"
    /\ UNCHANGED <<scans_db, resp, seen, held, uploadFiles, metadata_file, status_file,
                   celery, workerVars>>
    /\ UNCHANGED dec

\* lines 138-146: scan_record is the object stored in scans_db; after the
\* three assignments metadata.json is opened for writing, which truncates it.
UploadMarkProcessing ==
    /\ upc = "scheduled"
    /\ scans_db' = <<Update(scans_db[1],
                           [status |-> "processing", processing_started |-> TRUE,
                            task_id |-> TaskId])>>
    /\ metadata_file' = Empty
    /\ held' = [held EXCEPT !.scans_db = Note(@, "processing")]
    /\ upc' = "writing"
    /\ UNCHANGED <<resp, seen, uploadFiles, status_file, task_msg, celery, workerVars>>
    /\ UNCHANGED dec

\* lines 146-156: json.dump(scan_record, f), close, answer 200.  The record
\* is shorter than any the worker writes from the record of line 124: this one
\* has a quoted 36-character task id for null, true for false and
\* "processing" for "uploaded" (35 characters more); the worker's has the key
\* processing_data with at least one entry (44 characters or more) and a
\* status at most 2 characters shorter.
UploadDump ==
    /\ upc = "writing"
    /\ metadata_file' = Closed(metadata_file, scans_db[1], TRUE)
    /\ held' = [held EXCEPT !.metadata_file = NoteAll(@, StatusIn(metadata_file'))]
    /\ upc' = "done"
    /\ UNCHANGED <<scans_db, resp, seen, uploadFiles, status_file, task_msg, celery,
                   workerVars>>
    /\ UNCHANGED dec

Upload ==
    \/ UploadInvalidJson
    \/ UploadCreate
    \/ UploadSchedule
    \/ UploadMarkProcessing
    \/ UploadDump

(* ---------------------- tasks.py: update_scan_status ------------------ *)

\* The call update_scan_status(scan_id, status, data) made at call site `site`
\* ("init" line 43, "extract" line 54, "completed" line 75, "failed" line 95,
\* "except" line 114).
Frame(site, status, data) ==
    [status |-> status, data |-> data, site |-> site,
     cur |-> EmptyDict, meta |-> EmptyDict]

\* Where the task continues when the call made at `site` returns.
ReturnPc(site) ==
    CASE site = "init" -> "state_extracting"
      [] site = "extract" -> "process_scan"
      [] site = "completed" -> "return_success"
      [] site = "failed" -> "return_failed"
      [] OTHER -> "return_error"

\* Lines 48 and 106: the calls of lines 54, 75 and 95 are inside the try
\* block; those of line 43 (before it) and line 114 (in the handler) are not.
InTry(site) == site \in {"extract", "completed", "failed"}

\* Where the task continues when the call made at `site` raises.
RaisePc(site) == IF InTry(site) THEN "except_state" ELSE "crashed"

\* An exception that leaves the task function: Celery records FAILURE.
CeleryAfterRaise(site, exc) ==
    IF InTry(site) THEN celery ELSE [state |-> "FAILURE", info |-> [exc |-> exc]]

\* lines 137-141: current_status.update({"status": status, **data})
MergedStatus(current, status, data) ==
    Update(current, Update([status |-> status], data))

\* lines 128-144: if the scan directory exists, read status.json when it is
\* there, merge, and open it for writing.
UssStatusOpen ==
    /\ wpc = "uss_status"
    /\ IF ~upload_dir
       THEN /\ wpc' = "uss_meta"
            /\ UNCHANGED <<uss, status_file, celery, ps>>
       ELSE IF Unreadable(status_file)
       THEN /\ wpc' = RaisePc(uss.site)
            /\ celery' = CeleryAfterRaise(uss.site, "JSONDecodeError")
            /\ ps' = [ps EXCEPT !.error = "JSONDecodeError"]
            /\ UNCHANGED <<uss, status_file>>
       ELSE /\ uss' = [uss EXCEPT !.cur =
                          MergedStatus(status_file.data, uss.status, uss.data)]
            /\ status_file' = Empty
            /\ wpc' = "uss_status_dump"
            /\ UNCHANGED <<celery, ps>>
    /\ UNCHANGED <<apiVars, uploadFiles, metadata_file, task_msg, stage, stage_log,
                   work, result>>
    /\ UNCHANGED dec

\* line 145: json.dump(current_status, f) and the close of status.json.
UssStatusDump ==
    /\ wpc = "uss_status_dump"
    /\ status_file' = Closed(status_file, uss.cur, FALSE)
    /\ held' = [held EXCEPT !.status_file = NoteAll(@, StatusIn(status_file')),
                            !.durable = NoteAll(@, StageIn(status_file'))]
    /\ wpc' = "uss_meta"
    /\ UNCHANGED <<upc, scans_db, resp, seen, uploadFiles, metadata_file, task_msg, celery, uss,
                   scanVars>>
    /\ UNCHANGED dec

\* lines 148-154: metadata.json is read when it exists and the two keys set.
UssMetaRead ==
    /\ wpc = "uss_meta"
    /\ ~Unreadable(metadata_file)
    /\ IF metadata_file.st = "absent"
       THEN /\ wpc' = ReturnPc(uss.site)
            /\ UNCHANGED uss
       ELSE /\ uss' = [uss EXCEPT !.meta =
                          Update(metadata_file.data,
                                 [status |-> uss.status, processing_data |-> uss.data])]
            /\ wpc' = "uss_meta_open"
    /\ UNCHANGED <<apiVars, uploadFiles, metadata_file, status_file, task_msg, celery,
                   scanVars>>
    /\ UNCHANGED dec

\* lines 150-151: json.load raises on the file the upload handler is rewriting.
UssMetaReadRaises ==
    /\ wpc = "uss_meta"
    /\ Unreadable(metadata_file)
    /\ wpc' = RaisePc(uss.site)
    /\ celery' = CeleryAfterRaise(uss.site, "JSONDecodeError")
    /\ ps' = [ps EXCEPT !.error = "JSONDecodeError"]
    /\ UNCHANGED <<apiVars, uploadFiles, metadata_file, status_file, task_msg, uss,
                   stage, stage_log, work, result>>
    /\ UNCHANGED dec

\* line 156: open(metadata_file, 'w'), which raises FileNotFoundError when the
\* scan directory was removed since the read.
UssMetaOpen ==
    /\ wpc = "uss_meta_open"
    /\ IF upload_dir
       THEN /\ metadata_file' = Empty
            /\ wpc' = "uss_meta_dump"
            /\ UNCHANGED <<celery, ps>>
       ELSE /\ wpc' = RaisePc(uss.site)
            /\ celery' = CeleryAfterRaise(uss.site, "FileNotFoundError")
            /\ ps' = [ps EXCEPT !.error = "FileNotFoundError"]
            /\ UNCHANGED metadata_file
    /\ UNCHANGED <<apiVars, uploadFiles, status_file, task_msg, uss, stage, stage_log,
                   work, result>>
    /\ UNCHANGED dec

\* line 157: json.dump(metadata, f), the close, and the return.
UssMetaDump ==
    /\ wpc = "uss_meta_dump"
    /\ metadata_file' = Closed(metadata_file, uss.meta, FALSE)
    /\ held' = [held EXCEPT !.metadata_file = NoteAll(@, StatusIn(metadata_file'))]
    /\ wpc' = ReturnPc(uss.site)
    /\ UNCHANGED <<upc, scans_db, resp, seen, uploadFiles, status_file, task_msg, celery, uss, scanVars>>
    /\ UNCHANGED dec

UpdateScanStatus ==
    \/ UssStatusOpen
    \/ UssStatusDump
    \/ UssMetaRead
    \/ UssMetaReadRaises
    \/ UssMetaOpen
    \/ UssMetaDump

(* -------------------- tasks.py: process_photogrammetry ---------------- *)

\* lines 31-46: the worker takes the task, update_state(PROCESSING,
\* initializing) and the first status update, made before the try block.
TaskBegin ==
    /\ wpc = "idle"
    /\ task_msg # <<>>
    /\ task_msg' = <<>>
    /\ ps' = [ps EXCEPT !.metadata = task_msg[1].metadata]
    /\ celery' = [state |-> "PROCESSING", info |-> InitializingData]
    /\ uss' = Frame("init", "processing", InitializingData)
    /\ wpc' = "uss_status"
    /\ UNCHANGED <<apiVars, uploadFiles, metadata_file, status_file, stage, stage_log,
                   work, result>>
    /\ UNCHANGED dec

\* lines 50-57: update_state(PROCESSING, extracting_features) and the call.
TaskStateExtracting ==
    /\ wpc = "state_extracting"
    /\ celery' = [state |-> "PROCESSING", info |-> ExtractingData]
    /\ uss' = Frame("extract", "processing", ExtractingData)
    /\ wpc' = "uss_status"
    /\ UNCHANGED <<apiVars, uploadFiles, metadata_file, status_file, task_msg, scanVars>>
    /\ UNCHANGED dec

\* lines 66-79: process_scan returned success.
TaskStateSuccess ==
    /\ wpc = "task_result"
    /\ result.status = "success"
    /\ celery' = [state |-> "SUCCESS",
                  info |-> [stage |-> "completed", progress |-> CompletedProgress,
                            models |-> result.models, stats |-> result.stats]]
    /\ uss' = Frame("completed", "completed",
                    [models |-> result.models, stats |-> result.stats,
                     photo_count |-> Get(result, "photo_count", 0)])
    /\ wpc' = "uss_status"
    /\ UNCHANGED <<apiVars, uploadFiles, metadata_file, status_file, task_msg, scanVars>>
    /\ UNCHANGED dec

\* lines 87-97: process_scan returned failed.
TaskStateFailed ==
    /\ wpc = "task_result"
    /\ result.status # "success"
    /\ LET error_msg == Get(result, "error", "Unknown error")
       IN  /\ celery' = [state |-> "FAILURE",
                         info |-> [stage |-> "failed", error |-> error_msg]]
           /\ uss' = Frame("failed", "failed", [error |-> error_msg])
    /\ wpc' = "uss_status"
    /\ UNCHANGED <<apiVars, uploadFiles, metadata_file, status_file, task_msg, scanVars>>
    /\ UNCHANGED dec

\* lines 106-116: the handler of an exception raised inside the try block.
TaskExcept ==
    /\ wpc = "except_state"
    /\ celery' = [state |-> "FAILURE", info |-> [stage |-> "error", error |-> ps.error]]
    /\ uss' = Frame("except", "failed", [error |-> ps.error])
    /\ wpc' = "uss_status"
    /\ UNCHANGED <<apiVars, uploadFiles, metadata_file, status_file, task_msg, scanVars>>
    /\ UNCHANGED dec

\* lines 82-86, 100-104, 118-122: the dict the task returns, by return site.
ReturnValue(pc) ==
    CASE pc = "return_success" ->
           [status |-> "success", scan_id |-> "scan-1", models |-> result.models]
      [] pc = "return_failed" ->
           [status |-> "failed", scan_id |-> "scan-1",
            error |-> Get(result, "error", "Unknown error")]
      [] OTHER ->
           [status |-> "error", scan_id |-> "scan-1", error |-> ps.error]

\* The task function returns; Celery stores the returned dict as the result.
TaskReturn ==
    /\ wpc \in {"return_success", "return_failed", "return_error"}
    /\ celery' = [state |-> "SUCCESS", info |-> ReturnValue(wpc)]
    /\ wpc' = "done"
    /\ UNCHANGED <<apiVars, uploadFiles, metadata_file, status_file, task_msg, uss,
                   scanVars>>
    /\ UNCHANGED dec

Task ==
    \/ TaskBegin
    \/ TaskStateExtracting
    \/ TaskStateSuccess
    \/ TaskStateFailed
    \/ TaskExcept
    \/ TaskReturn

(* ------------- photogrammetry.py: the fallback box mesh --------------- *)

\* A float as an exact fraction n/d.
Rat(n, d) == [n |-> n, d |-> d]
Neg(q) == Rat(0 - q.n, q.d)
DivBy(q, k) == Rat(q.n, q.d * k)

DimNames == {"length", "width", "height"}

\* line 430: metadata.get('dimensions', {})
DimsOf(metadata) == Get(metadata, "dimensions", EmptyDict)

\* lines 431-433: float(x) raises ValueError on a non-numeric value; the
\* defaults are used for the keys that are missing.
FallbackRaises(metadata) ==
    \E k \in DimNames : k \in DOMAIN DimsOf(metadata) /\ DimsOf(metadata)[k].t # "num"

\* lines 431-433: float(dims.get(k, default)) / 100
DimMetres(metadata, k, default) ==
    DivBy(Rat(Get(DimsOf(metadata), k, JNum(default)).v, 1), CmPerMetre)

\* BoxVertices with the sign of the third vertex's depth lost.
BoxVerticesSignSlip(length, width, height) ==
    LET hl == DivBy(length, 2)
        hw == DivBy(width, 2)
        hh == DivBy(height, 2)
    IN  << <<Neg(hl), Neg(hh), Neg(hw)>>, <<hl, Neg(hh), Neg(hw)>>,
           <<hl, hh, hw>>, <<Neg(hl), hh, Neg(hw)>>,
           <<Neg(hl), Neg(hh), hw>>, <<hl, Neg(hh), hw>>,
           <<hl, hh, hw>>, <<Neg(hl), hh, hw>> >>

\* lines 441-445
BoxVertices(length, width, height) ==
    LET hl == DivBy(length, 2)
        hw == DivBy(width, 2)
        hh == DivBy(height, 2)
    IN  << <<Neg(hl), Neg(hh), Neg(hw)>>, <<hl, Neg(hh), Neg(hw)>>,
           <<hl, hh, Neg(hw)>>, <<Neg(hl), hh, Neg(hw)>>,
           <<Neg(hl), Neg(hh), hw>>, <<hl, Neg(hh), hw>>,
           <<hl, hh, hw>>, <<Neg(hl), hh, hw>> >>

\* lines 454-458
BoxFaces ==
    << <<1, 2, 3, 4>>, <<5, 8, 7, 6>>,
       <<1, 5, 6, 2>>, <<3, 7, 8, 4>>,
       <<1, 4, 8, 5>>, <<2, 6, 7, 3>> >>

\* lines 428-461: the mesh.obj _create_fallback_mesh writes, one element of
\* v per "v" line and one element of f per "f" line.
FallbackMesh(metadata) ==
    [src |-> "box",
     v |-> BoxVertices(DimMetres(metadata, "length", DefaultLength),
                       DimMetres(metadata, "width", DefaultWidth),
                       DimMetres(metadata, "height", DefaultHeight)),
     f |-> BoxFaces]

\* lines 367-407: the mesh.obj _create_convex_hull_obj writes from n points.
HullMesh(n) == [src |-> "hull", npoints |-> n]

(* ----------------- photogrammetry.py: process_scan -------------------- *)

\* lines 190-195
PipelineResults ==
    [features_extracted |-> TRUE, sparse_reconstruction |-> TRUE,
     model_optimized |-> TRUE, dense_reconstruction |-> FALSE]

\* lines 81-88
FallbackResults(err) ==
    [features_extracted |-> FALSE, sparse_reconstruction |-> FALSE,
     model_optimized |-> FALSE, dense_reconstruction |-> FALSE,
     fallback_model |-> TRUE, error |-> err]

\* lines 90-95
SuccessResult(models, stats, photo_count) ==
    [status |-> "success", models |-> models, stats |-> stats,
     photo_count |-> photo_count]

\* lines 97-102
FailedResult(err) == [status |-> "failed", error |-> err]

\* The mesh file named in the models map under a key that is not mesh_obj.
MeshObjUnderOtherKey == [fallback_obj |-> "output/mesh.obj"]

MeshObj == [mesh_obj |-> "output/mesh.obj"]

\* line 201: the message of the exception raised for a failed command, which
\* ends with the command's captured standard error.
ColmapFailure == "COLMAP processing failed: <stderr>"

PipelineStages == {"feature_extractor", "exhaustive_matcher", "mapper", "bundle_adjuster"}
ConverterStages == {"model_converter_ply", "model_converter_txt"}

Logged(cmd, exit) == Append(stage_log, [cmd |-> cmd, exit |-> exit])

\* docker run -v <host path>:/work creates the host directory when it is missing.
Docker(w) == [w EXCEPT !.dir = TRUE]

\* lines 32-39, 97-102: the working directory is created; zipfile.ZipFile
\* raises on an archive that is no ZIP file or that was removed.
ProcessScanBadZip ==
    /\ wpc = "process_scan"
    /\ IF photos_zip = <<>> THEN TRUE ELSE ~photos_zip[1].zip
    /\ work' = [work EXCEPT !.dir = TRUE]
    /\ result' = FailedResult(IF photos_zip = <<>> THEN "FileNotFoundError"
                                                  ELSE "BadZipFile")
    /\ wpc' = "task_result"
    /\ UNCHANGED <<apiVars, uploadFiles, metadata_file, status_file, task_msg, celery,
                   uss, stage, stage_log, ps>>
    /\ UNCHANGED dec

\* lines 31-60, 146-156: the photos are extracted and feature_extractor starts.
ProcessScanExtract ==
    /\ wpc = "process_scan"
    /\ IF photos_zip = <<>> THEN FALSE ELSE photos_zip[1].zip
    /\ work' = [work EXCEPT !.dir = TRUE]
    /\ ps' = [ps EXCEPT !.photo_count = photos_zip[1].photos]
    /\ stage' = "feature_extractor"
    /\ wpc' = "run_stage"
    /\ UNCHANGED <<apiVars, uploadFiles, metadata_file, status_file, task_msg, celery,
                   uss, stage_log, result>>
    /\ UNCHANGED dec

\* lines 148-165: feature_extractor exits 0, exhaustive_matcher starts.
FeatureExtractorOk ==
    /\ wpc = "run_stage" /\ stage = "feature_extractor"
    /\ stage_log' = Logged(stage, "ok")
    /\ stage' = "exhaustive_matcher"
    /\ work' = Docker(work)
    /\ UNCHANGED <<apiVars, uploadFiles, metadata_file, status_file, task_msg, celery,
                   wpc, uss, ps, result>>
    /\ UNCHANGED dec

\* lines 160-177: exhaustive_matcher exits 0, mapper starts.
MatcherOk ==
    /\ wpc = "run_stage" /\ stage = "exhaustive_matcher"
    /\ stage_log' = Logged(stage, "ok")
    /\ stage' = "mapper"
    /\ work' = Docker(work)
    /\ UNCHANGED <<apiVars, uploadFiles, metadata_file, status_file, task_msg, celery,
                   wpc, uss, ps, result>>
    /\ UNCHANGED dec

\* lines 169-195: mapper exits 0, having written a model directory or not, and
\* a text model in it or not; bundle_adjuster runs only on a model directory.
\* _find_model_dir lists sparse/, which raises FileNotFoundError when the
\* working directory was removed.
MapperOk ==
    /\ wpc = "run_stage" /\ stage = "mapper"
    /\ stage_log' = Logged(stage, "ok")
    /\ IF ~work.dir
       THEN /\ stage' = None
            /\ ps' = [ps EXCEPT !.error = "FileNotFoundError"]
            /\ wpc' = "colmap_except"
            /\ work' = Docker(work)
       ELSE \E model \in BOOLEAN, txt \in {<<>>, <<MaxPoints>>} :
              /\ model \/ txt = <<>>
              /\ work' = [work EXCEPT !.sparse_model = model, !.sparse_txt = txt]
              /\ IF model
                 THEN stage' = "bundle_adjuster" /\ wpc' = "run_stage" /\ ps' = ps
                 ELSE /\ stage' = None
                      /\ wpc' = "export"
                      /\ ps' = [ps EXCEPT !.results = PipelineResults]
    /\ UNCHANGED <<apiVars, uploadFiles, metadata_file, status_file, task_msg, celery,
                   uss, result>>
    /\ UNCHANGED dec

\* lines 183-195: bundle_adjuster exits 0, _run_colmap_pipeline returns.
BundleAdjusterOk ==
    /\ wpc = "run_stage" /\ stage = "bundle_adjuster"
    /\ stage_log' = Logged(stage, "ok")
    /\ stage' = None
    /\ work' = Docker(work)
    /\ ps' = [ps EXCEPT !.results = PipelineResults]
    /\ wpc' = "export"
    /\ UNCHANGED <<apiVars, uploadFiles, metadata_file, status_file, task_msg, celery,
                   uss, result>>
    /\ UNCHANGED dec

\* PipelineStageFails with the failed command run again instead of raising.
PipelineStageFailsRetried ==
    /\ wpc = "run_stage" /\ stage \in PipelineStages
    /\ Len(stage_log) < 6
    /\ stage_log' = Logged(stage, "fail")
    /\ UNCHANGED <<apiVars, uploadFiles, metadata_file, status_file, task_msg, celery,
                   wpc, uss, stage, work, ps, result>>
    /\ UNCHANGED dec

\* lines 197-201: a pipeline command exits non-zero; CalledProcessError becomes
\* Exception("COLMAP processing failed: " + stderr), caught at line 71.
PipelineStageFails ==
    /\ wpc = "run_stage" /\ stage \in PipelineStages
    /\ stage_log' = Logged(stage, "fail")
    /\ stage' = None
    /\ ps' = [ps EXCEPT !.error = ColmapFailure]
    /\ wpc' = "colmap_except"
    /\ UNCHANGED <<apiVars, uploadFiles, metadata_file, status_file, task_msg, celery,
                   uss, work, result>>
    /\ UNCHANGED dec

\* lines 71-95 and 97-102: the handler of a pipeline or export exception
\* creates output/ (FileNotFoundError when the working directory was removed)
\* and writes the fallback mesh; when either raises, the outer handler returns
\* failed.
ColmapExcept ==
    /\ wpc = "colmap_except"
    /\ IF ~work.dir
       THEN /\ result' = FailedResult("FileNotFoundError")
            /\ UNCHANGED work
       ELSE IF FallbackRaises(ps.metadata)
       THEN /\ result' = FailedResult("ValueError: could not convert string to float")
            /\ UNCHANGED work
       ELSE /\ work' = [work EXCEPT !.mesh = <<FallbackMesh(ps.metadata)>>]
            /\ result' = SuccessResult(MeshObj, FallbackResults(ps.error), ps.photo_count)
    /\ wpc' = "task_result"
    /\ UNCHANGED <<apiVars, uploadFiles, metadata_file, status_file, task_msg, celery,
                   uss, stage, stage_log, ps>>
    /\ UNCHANGED dec

\* lines 232-252: a model directory was found, model_converter (PLY) starts.
ExportStart ==
    /\ wpc = "export"
    /\ work.sparse_model
    /\ stage' = "model_converter_ply"
    /\ wpc' = "run_stage"
    /\ UNCHANGED <<apiVars, uploadFiles, metadata_file, status_file, task_msg, celery,
                   uss, stage_log, work, ps, result>>
    /\ UNCHANGED dec

\* What the fallback of _export_models or of _create_mesh_from_colmap_model
\* leads to, the task's locals being `locals`: the box and a success result
\* with the pipeline's stats and the models collected so far, or (ValueError of
\* float(), FileNotFoundError of open() in a removed directory) the handler of
\* line 71.
ExportFallback(models, locals) ==
    IF FallbackRaises(ps.metadata) \/ ~work.dir
    THEN /\ ps' = [locals EXCEPT !.error =
                      IF FallbackRaises(ps.metadata)
                      THEN "ValueError: could not convert string to float"
                      ELSE "FileNotFoundError"]
         /\ wpc' = "colmap_except"
         /\ UNCHANGED <<work, result>>
    ELSE /\ work' = [work EXCEPT !.mesh = <<FallbackMesh(ps.metadata)>>]
         /\ result' = SuccessResult(Update(models, MeshObj), ps.results, ps.photo_count)
         /\ wpc' = "task_result"
         /\ ps' = locals

\* lines 233-239: no model directory, the fallback mesh is written.
ExportNoModel ==
    /\ wpc = "export"
    /\ ~work.sparse_model
    /\ IF ~work.dir
       THEN /\ ps' = [ps EXCEPT !.error = "FileNotFoundError"]
            /\ wpc' = "colmap_except"
            /\ UNCHANGED <<work, result>>
       ELSE ExportFallback(EmptyDict, ps)
    /\ UNCHANGED <<apiVars, uploadFiles, metadata_file, status_file, task_msg, celery,
                   uss, stage, stage_log>>
    /\ UNCHANGED dec

\* lines 244-265: model_converter (PLY) exits 0 having written points.ply,
\* from which the decoder will read n points (nothing is left of it when the
\* working directory was removed under it); model_converter (TXT) starts.
ConverterPlyOk ==
    /\ wpc = "run_stage" /\ stage = "model_converter_ply"
    /\ stage_log' = Logged(stage, "ok")
    /\ IF work.dir
       THEN \E n \in 0..MaxPoints : work' = [work EXCEPT !.points_ply = <<n>>]
       ELSE work' = Docker(work)
    /\ ps' = [ps EXCEPT !.models = [points_ply |-> "output/points.ply"]]
    /\ stage' = "model_converter_txt"
    /\ UNCHANGED <<apiVars, uploadFiles, metadata_file, status_file, task_msg, celery,
                   wpc, uss, result>>
    /\ UNCHANGED dec

\* lines 257-268: model_converter (TXT) exits 0 having written
\* model/points3D.txt with n data lines.
ConverterTxtOk ==
    /\ wpc = "run_stage" /\ stage = "model_converter_txt"
    /\ stage_log' = Logged(stage, "ok")
    /\ IF work.dir
       THEN \E n \in 0..MaxPoints : work' = [work EXCEPT !.model_txt = <<n>>]
       ELSE UNCHANGED work
    /\ stage' = None
    /\ wpc' = "mesh"
    /\ UNCHANGED <<apiVars, uploadFiles, metadata_file, status_file, task_msg, celery,
                   uss, ps, result>>
    /\ UNCHANGED dec

\* lines 271-277: a model_converter exits non-zero; the handler writes the
\* fallback mesh without reading any text model.
ConverterFails ==
    /\ wpc = "run_stage" /\ stage \in ConverterStages
    /\ stage_log' = Logged(stage, "fail")
    /\ stage' = None
    /\ ExportFallback(ps.models, ps)
    /\ UNCHANGED <<apiVars, uploadFiles, metadata_file, status_file, task_msg, celery,
                   uss>>
    /\ UNCHANGED dec

\* lines 283-311: the points _create_mesh_from_colmap_model ends up with:
\* those of points.ply when there are at least 4, else those of
\* model/points3D.txt, else those of sparse/0/points3D.txt; <<>> when no
\* points file is found.
DecodedPoints(w) ==
    IF w.points_ply # <<>> /\ w.points_ply[1] >= MinHullPoints THEN w.points_ply
    ELSE IF w.model_txt # <<>> THEN w.model_txt
    ELSE w.sparse_txt

\* lines 287, 310
Usable(points) == points # <<>> /\ points[1] >= MinHullPoints

\* lines 288, 315, 367-407, 269: ConvexHull forms a hull of the points and
\* the hull mesh is written.
MeshFromPoints ==
    /\ wpc = "mesh"
    /\ Usable(DecodedPoints(work))
    /\ work' = [work EXCEPT !.mesh = <<HullMesh(DecodedPoints(work)[1])>>]
    /\ result' = SuccessResult(Update(ps.models, MeshObj), ps.results, ps.photo_count)
    /\ ps' = [ps EXCEPT !.hull = "formed"]
    /\ wpc' = "task_result"
    /\ UNCHANGED <<apiVars, uploadFiles, metadata_file, status_file, task_msg, celery,
                   uss, stage, stage_log>>
    /\ UNCHANGED dec

\* lines 297, 311, 317-319: no points file, fewer than 4 points, or
\* ConvexHull raises (QhullError) on the points: the fallback mesh is written.
MeshFallback ==
    /\ wpc = "mesh"
    /\ ExportFallback(ps.models,
                      [ps EXCEPT !.hull = IF Usable(DecodedPoints(work))
                                          THEN "degenerate" ELSE @])
    /\ UNCHANGED <<apiVars, uploadFiles, metadata_file, status_file, task_msg, celery,
                   uss, stage, stage_log>>
    /\ UNCHANGED dec

\* subprocess.run is called without a timeout: a command that never exits
\* blocks the task.
StageHangs ==
    /\ wpc = "run_stage"
    /\ wpc' = "hung"
    /\ UNCHANGED <<apiVars, uploadFiles, metadata_file, status_file, task_msg, celery,
                   uss, scanVars>>
    /\ UNCHANGED dec

\* tasks.py line 24: task_time_limit=3600, Celery's hard limit: the process
\* running the task is killed and the task recorded as failed in the backend.
TimeLimitKill ==
    /\ wpc = "hung"
    /\ wpc' = "killed"
    /\ celery' = [state |-> "FAILURE", info |-> [exc |-> "TimeLimitExceeded"]]
    /\ UNCHANGED <<apiVars, uploadFiles, metadata_file, status_file, task_msg, uss,
                   scanVars>>
    /\ UNCHANGED dec

ProcessScan ==
    \/ ProcessScanBadZip
    \/ ProcessScanExtract
    \/ FeatureExtractorOk
    \/ MatcherOk
    \/ MapperOk
    \/ BundleAdjusterOk
    \/ PipelineStageFails
    \/ ColmapExcept
    \/ ExportStart
    \/ ExportNoModel
    \/ ConverterPlyOk
    \/ ConverterTxtOk
    \/ ConverterFails
    \/ MeshFromPoints
    \/ MeshFallback
    \/ StageHangs
    \/ TimeLimitKill

(* ---------------------- main.py: get_scan_status ---------------------- *)

Progress(d) == IF "progress" \in DOMAIN d THEN <<d.progress>> ELSE <<>>

\* lines 169-176: the scan is unknown, 404.
QueryNotFound ==
    /\ upc \in {"idle", "rejected", "done"}
    /\ scans_db = <<>>
    /\ metadata_file.st = "absent"
    /\ resp' = [http |-> 404]
    /\ UNCHANGED <<upc, scans_db, seen, held, uploadFiles, metadata_file, status_file,
                   task_msg, celery, workerVars>>
    /\ UNCHANGED dec

\* lines 181-184: json.load raises on the status.json the worker is writing;
\* the handler answers 500.
QueryRaises ==
    /\ upc = "done"
    /\ scans_db # <<>>
    /\ Unreadable(status_file)
    /\ resp' = [http |-> 500]
    /\ UNCHANGED <<upc, scans_db, seen, held, uploadFiles, metadata_file, status_file,
                   task_msg, celery, workerVars>>
    /\ UNCHANGED dec

\* Queried with the status file's document stored under the key metadata.
QueriedIntoMetadata(scan) ==
    LET a == IF status_file.st = "ok"
             THEN Update(scan, [status |-> Get(status_file.data, "status", scan.status),
                                metadata |-> status_file.data])
             ELSE scan
    IN  IF a.task_id # None
        THEN Update(a, [task_status |-> celery.state, task_info |-> celery.info])
        ELSE a

\* lines 178-192: the registry's record after the status file and the task's
\* state are merged into it.
Queried(scan) ==
    LET a == IF status_file.st = "ok"
             THEN Update(scan, [status |-> Get(status_file.data, "status", scan.status),
                                processing_data |-> status_file.data])
             ELSE scan
    IN  IF a.task_id # None
        THEN Update(a, [task_status |-> celery.state, task_info |-> celery.info])
        ELSE a

\* lines 194-203
Response(scan) ==
    [http |-> 200, uuid |-> scan.uuid, status |-> scan.status,
     metadata |-> scan.metadata,
     processing_data |-> Get(scan, "processing_data", EmptyDict),
     task_status |-> Get(scan, "task_status", None),
     task_info |-> Get(scan, "task_info", EmptyDict)]

\* lines 164-203: a status query of the registered scan.
QueryStatus ==
    /\ upc = "done"
    /\ scans_db # <<>>
    /\ ~Unreadable(status_file)
    /\ scans_db' = <<Queried(scans_db[1])>>
    /\ resp' = Response(Queried(scans_db[1]))
    /\ seen' = [record |-> NoteAll(seen.record, Progress(resp'.processing_data)),
                task |-> NoteAll(seen.task, Progress(resp'.task_info))]
    /\ held' = [held EXCEPT !.scans_db = Note(@, resp'.status)]
    /\ UNCHANGED <<upc, uploadFiles, metadata_file, status_file, task_msg, celery,
                   workerVars>>
    /\ UNCHANGED dec

Query ==
    \/ QueryNotFound
    \/ QueryRaises
    \/ QueryStatus

(* ------------------------ main.py: delete_scan ----------------------- *)

\* lines 315-318: the scan is neither registered nor on disk, 404.
DeleteNotFound ==
    /\ upc \in {"idle", "rejected", "done"}
    /\ scans_db = <<>>
    /\ metadata_file.st = "absent"
    /\ resp' = [http |-> 404, request |-> "delete"]
    /\ UNCHANGED <<upc, scans_db, seen, held, uploadFiles, metadata_file, status_file,
                   task_msg, celery, workerVars, dec>>

\* lines 320-334: uploads/<scan_id> and processing/<scan_id> are removed with
\* all they hold and the scan is dropped from the registry.  The task is not
\* revoked: a queued message stays queued and a running task goes on.
DeleteScan ==
    /\ upc = "done"
    /\ scans_db # <<>>
    /\ upload_dir' = FALSE
    /\ photos_zip' = <<>>
    /\ metadata_file' = Absent
    /\ status_file' = Absent
    /\ work' = NoWork
    /\ scans_db' = <<>>
    /\ resp' = [http |-> 200, request |-> "delete"]
    /\ UNCHANGED <<upc, seen, held, task_msg, celery, wpc, uss, stage, stage_log, ps,
                   result, dec>>

Delete ==
    \/ DeleteNotFound
    \/ DeleteScan

(* ------------------- main.py: the routes of the app ------------------- *)

\* The part of its run the job is in, as a caller asking to cancel it finds it.
Phase ==
    IF StatusIn(status_file) # <<>> /\ StatusIn(status_file)[1] \in TerminalStatus
    THEN "terminal"
    ELSE IF wpc = "run_stage" /\ stage \in {"mapper", "bundle_adjuster"}
    THEN "reconstructing"
    ELSE "other"

\* lines 46-337: the app routes /, /health, /upload/, /status, /task, /model,
\* /download, /scans and /stats; none cancels a job and no code revokes or
\* aborts a task.  A request to cancel the scan matches no route: the
\* framework answers 404 and nothing changes.
CancelRequest ==
    /\ upc = "done"
    /\ resp' = [http |-> 404, request |-> "cancel", phase |-> Phase]
    /\ UNCHANGED <<upc, scans_db, seen, held, uploadFiles, metadata_file, status_file,
                   task_msg, celery, workerVars>>
    /\ UNCHANGED dec

(* --------------------------- specification ---------------------------- *)

Next ==
    \/ Upload
    \/ UpdateScanStatus
    \/ Task
    \/ ProcessScan
    \/ Query
    \/ Delete
    \/ CancelRequest

Spec == Init /\ [][Next]_vars

(* ------------- the fallback mesh over a range of dimensions ----------- *)

\* The job as it stands when the fallback mesh is about to be written, for
\* metadata m: the upload has returned, both progress updates are written, the
\* photos are extracted, and either feature_extractor has exited non-zero
\* (pc "colmap_except") or the pipeline has ended without a model directory
\* (pc "export").
BeforeFallback(m, pc) ==
    LET rec == Update(ScanRecord(m), [status |-> "processing",
                                      processing_started |-> TRUE, task_id |-> TaskId])
        sdoc == MergedStatus(MergedStatus(EmptyDict, "processing", InitializingData),
                             "processing", ExtractingData)
        mdoc == Update(rec, [status |-> "processing", processing_data |-> ExtractingData])
        failed == pc = "colmap_except"
    IN  /\ upc = "done"
        /\ scans_db = <<rec>>
        /\ upload_dir = TRUE
        /\ photos_zip = <<[zip |-> TRUE, photos |-> MaxPhotos]>>
        /\ metadata_file = Holding(mdoc)
        /\ status_file = Holding(sdoc)
        /\ task_msg = <<>>
        /\ celery = [state |-> "PROCESSING", info |-> ExtractingData]
        /\ wpc = pc
        /\ uss = [Frame("extract", "processing", ExtractingData)
                     EXCEPT !.cur = sdoc, !.meta = mdoc]
        /\ stage = None
        /\ stage_log =
              IF failed
              THEN <<[cmd |-> "feature_extractor", exit |-> "fail"]>>
              ELSE <<[cmd |-> "feature_extractor", exit |-> "ok"],
                     [cmd |-> "exhaustive_matcher", exit |-> "ok"],
                     [cmd |-> "mapper", exit |-> "ok"]>>
        /\ work = [NoWork EXCEPT !.dir = TRUE]
        /\ ps = [metadata |-> m, photo_count |-> MaxPhotos,
                 results |-> IF failed THEN EmptyDict ELSE PipelineResults,
                 models |-> EmptyDict,
                 error |-> IF failed THEN ColmapFailure ELSE None,
                 hull |-> "none"]
        /\ result = EmptyDict
        /\ resp = EmptyDict
        /\ seen = [record |-> <<>>, task |-> <<>>]
        /\ held = [status_file |-> <<"processing">>,
                   metadata_file |-> <<"uploaded", "processing">>,
                   scans_db |-> <<"uploaded", "processing">>,
                   durable |-> <<InitializingData, ExtractingData>>]
        /\ dec = NoDec

InitMesh ==
    \E l, w, h \in 1..MaxDim, pc \in {"colmap_except", "export"} :
        BeforeFallback([dimensions |-> Dims(JNum(l), JNum(w), JNum(h))], pc)

\* The two callers of _create_fallback_mesh that need no exported file.
NextMesh ==
    \/ ColmapExcept
    \/ ExportNoModel

SpecMesh == InitMesh /\ [][NextMesh]_vars

(* ---- photogrammetry.py: the points3D.txt decoder, run on its own ------ *)

\* A line of the file is what str.split() makes of it, a sequence of tokens,
\* and whether its first character is '#'.  A token is a number, named by the
\* line and the 0-based column it stands in, or a word float() rejects.
Num(l, c) == [t |-> "num", v |-> <<l, c>>]
Word == [t |-> "word"]
Columns(l, n) == [c \in 1..n |-> Num(l, c - 1)]

\* The lines drawn: a comment, a blank line, a data line of 8 columns
\* (POINT3D_ID X Y Z R G B ERROR), one of 4, one of 3, and one of 4 whose Y is
\* no number.
TextLines(l) ==
    { [hash |-> TRUE, toks |-> <<Word, Word>>],
      [hash |-> FALSE, toks |-> <<>>],
      [hash |-> FALSE, toks |-> Columns(l, 8)],
      [hash |-> FALSE, toks |-> Columns(l, 4)],
      [hash |-> FALSE, toks |-> Columns(l, 3)],
      [hash |-> FALSE, toks |-> [Columns(l, 4) EXCEPT ![3] = Word]] }

TextFiles ==
    UNION { { f \in [1..n -> UNION {TextLines(l) : l \in 1..n}] :
                \A l \in 1..n : f[l] \in TextLines(l) } : n \in 0..MaxLines }

\* line 307: float(parts[1]), float(parts[2]), float(parts[3])
PointOfSwapped(parts) == <<parts[2].v, parts[4].v, parts[3].v>>

PointOf(parts) == <<parts[2].v, parts[3].v, parts[4].v>>

\* float() raises ValueError on one of parts[1..3].
FloatRaises(parts) == \E c \in 2..4 : parts[c].t # "num"

InitText ==
    /\ Idle
    /\ \E f \in TextFiles :
          dec = [pc |-> "text", file |-> f, line |-> 1, points |-> <<>>]

\* lines 301-303: a line starting with '#' or holding only whitespace is skipped.
TextSkip ==
    /\ dec.pc = "text" /\ dec.line <= Len(dec.file)
    /\ LET ln == dec.file[dec.line]
       IN  /\ ln.hash \/ ln.toks = <<>>
           /\ dec' = [dec EXCEPT !.line = @ + 1]
    /\ UNCHANGED mainVars

\* lines 304-308: a line of at least 4 columns gives the point of its columns
\* 1, 2 and 3.
TextPoint ==
    /\ dec.pc = "text" /\ dec.line <= Len(dec.file)
    /\ LET ln == dec.file[dec.line]
       IN  /\ ~ln.hash /\ Len(ln.toks) >= 4
           /\ ~FloatRaises(ln.toks)
           /\ dec' = [dec EXCEPT !.line = @ + 1,
                                 !.points = Append(@, PointOf(ln.toks))]
    /\ UNCHANGED mainVars

\* lines 304-305: a line of 1 to 3 columns gives no point and no error.
TextShortLine ==
    /\ dec.pc = "text" /\ dec.line <= Len(dec.file)
    /\ LET ln == dec.file[dec.line]
       IN  /\ ~ln.hash /\ Len(ln.toks) \in 1..3
           /\ dec' = [dec EXCEPT !.line = @ + 1]
    /\ UNCHANGED mainVars

\* lines 307, 317: float() raises ValueError, which ends the decoding.
TextRaises ==
    /\ dec.pc = "text" /\ dec.line <= Len(dec.file)
    /\ LET ln == dec.file[dec.line]
       IN  /\ ~ln.hash /\ Len(ln.toks) >= 4
           /\ FloatRaises(ln.toks)
           /\ dec' = [dec EXCEPT !.pc = "text_raised"]
    /\ UNCHANGED mainVars

\* line 301: the file is exhausted.
TextEnd ==
    /\ dec.pc = "text" /\ dec.line > Len(dec.file)
    /\ dec' = [dec EXCEPT !.pc = "text_done"]
    /\ UNCHANGED mainVars

NextText ==
    \/ TextSkip
    \/ TextPoint
    \/ TextShortLine
    \/ TextRaises
    \/ TextEnd

SpecText == InitText /\ [][NextText]_vars

(* ------ photogrammetry.py: _read_points_from_ply, run on its own ------- *)

\* The vertex properties a header declares, with the bytes each takes in a
\* binary body: x, y, z alone, with colours, with normals.
Float(name) == [name |-> name, size |-> 4]
Uchar(name) == [name |-> name, size |-> 1]
XYZ == <<Float("x"), Float("y"), Float("z")>>
PropertyLists ==
    { XYZ,
      XYZ \o <<Uchar("red"), Uchar("green"), Uchar("blue")>>,
      XYZ \o <<Float("nx"), Float("ny"), Float("nz")>> }

RECURSIVE RecordWidth(_)
RecordWidth(props) ==
    IF props = <<>> THEN 0 ELSE props[1].size + RecordWidth(Tail(props))

\* A points.ply: the format and vertex count its header declares, the
\* properties of a vertex, the complete vertex records its body holds, and
\* whether the header ends with end_header.
PlyFiles ==
    { f \in [binary : BOOLEAN, declared : 0..MaxVertices, props : PropertyLists,
             records : 0..MaxVertices, end_header : BOOLEAN] :
        f.records <= f.declared }

\* The lines of the header.
HeaderLines(f) ==
    <<[k |-> "ply"], [k |-> "format", binary |-> f.binary],
      [k |-> "element vertex", n |-> f.declared]>>
    \o [i \in 1..Len(f.props) |-> [k |-> "property", name |-> f.props[i].name]]
    \o (IF f.end_header THEN <<[k |-> "end_header"]>> ELSE <<>>)

\* The size of the body: bytes of a binary file, lines of an ASCII one.
BodySize(f) == IF f.binary THEN f.records * RecordWidth(f.props) ELSE f.records

\* The three floats the writer put first in vertex record i (1-based), and
\* the three floats that 12 bytes read at byte p of a binary body decode to:
\* those of a record when p is where the record starts, others when not.
Triple(i) == [rec |-> i, off |-> 0]
TripleAt(f, p) ==
    [rec |-> (p \div RecordWidth(f.props)) + 1, off |-> p % RecordWidth(f.props)]

Least(a, b) == IF a < b THEN a ELSE b

\* line 356: f.read(3), the bytes skipped after the three floats of a vertex,
\* whatever properties the header declared.
SkippedBytes(f) == 3

InitPly ==
    /\ Idle
    /\ \E f \in PlyFiles :
          dec = [pc |-> "header", file |-> f, line |-> 1, pos |-> 0, spins |-> 0,
                 format_binary |-> FALSE, vertex_count |-> 0, properties |-> <<>>,
                 i |-> 0, points |-> <<>>]

\* lines 331-340: one line of the header is read and matched.
PlyHeaderLine ==
    /\ dec.pc = "header" /\ dec.line <= Len(HeaderLines(dec.file))
    /\ LET ln == HeaderLines(dec.file)[dec.line]
           read == [dec EXCEPT !.line = @ + 1]
       IN  dec' = CASE ln.k = "format" /\ ln.binary ->
                          [read EXCEPT !.format_binary = TRUE]
                    [] ln.k = "element vertex" -> [read EXCEPT !.vertex_count = ln.n]
                    [] ln.k = "property" ->
                          [read EXCEPT !.properties = Append(@, ln.name)]
                    [] ln.k = "end_header" -> [read EXCEPT !.pc = "body"]
                    [] OTHER -> read
    /\ UNCHANGED mainVars

\* lines 331-340, the header having no end_header line: readline goes on into
\* the body.  A line of an ASCII body matches nothing; the bytes of a binary
\* body up to the next newline byte match nothing either, or are no ASCII and
\* decode() raises UnicodeDecodeError.
PlyHeaderIntoBody ==
    /\ dec.pc = "header" /\ dec.line > Len(HeaderLines(dec.file))
    /\ dec.pos < BodySize(dec.file)
    /\ IF dec.file.binary
       THEN \E ascii \in BOOLEAN :
               dec' = IF ascii THEN [dec EXCEPT !.pos = BodySize(dec.file)]
                               ELSE [dec EXCEPT !.pc = "ply_raised"]
       ELSE dec' = [dec EXCEPT !.pos = @ + 1]
    /\ UNCHANGED mainVars

\* lines 331-340 at the end of the file: readline returns b'', which matches
\* nothing, header_end stays False and the loop reads again.
PlyHeaderAtEof ==
    /\ dec.pc = "header" /\ dec.line > Len(HeaderLines(dec.file))
    /\ dec.pos = BodySize(dec.file)
    /\ dec' = [dec EXCEPT !.spins = Least(@ + 1, MaxSpins)]
    /\ UNCHANGED mainVars

\* lines 347-356: 12 bytes are read; when 12 came, their floats are a point
\* and 3 more bytes are skipped.
PlyBinaryVertex ==
    /\ dec.pc = "body" /\ dec.format_binary /\ dec.i < dec.vertex_count
    /\ LET size == BodySize(dec.file)
           got == Least(12, size - dec.pos)
           after == dec.pos + got
       IN  dec' = IF got = 12
                  THEN [dec EXCEPT !.i = @ + 1,
                                   !.points = Append(@, TripleAt(dec.file, dec.pos)),
                                   !.pos = Least(after + SkippedBytes(dec.file), size)]
                  ELSE [dec EXCEPT !.i = @ + 1, !.pos = after]
    /\ UNCHANGED mainVars

\* lines 359-365: a line is read; when it is not empty and has 3 values, the
\* first three are a point.
PlyAsciiVertex ==
    /\ dec.pc = "body" /\ ~dec.format_binary /\ dec.i < dec.vertex_count
    /\ dec' = IF dec.pos < BodySize(dec.file) /\ Len(dec.file.props) >= 3
              THEN [dec EXCEPT !.i = @ + 1, !.pos = @ + 1,
                               !.points = Append(@, Triple(dec.pos + 1))]
              ELSE [dec EXCEPT !.i = @ + 1,
                               !.pos = Least(@ + 1, BodySize(dec.file))]
    /\ UNCHANGED mainVars

\* line 365: the points read are returned.
PlyReturn ==
    /\ dec.pc = "body" /\ dec.i = dec.vertex_count
    /\ dec' = [dec EXCEPT !.pc = "ply_done"]
    /\ UNCHANGED mainVars

NextPly ==
    \/ PlyHeaderLine
    \/ PlyHeaderIntoBody
    \/ PlyHeaderAtEof
    \/ PlyBinaryVertex
    \/ PlyAsciiVertex
    \/ PlyReturn

SpecPly == InitPly /\ [][NextPly]_vars

(* ------ photogrammetry.py: _create_convex_hull_obj, run on its own ----- *)

\* The points are named by their row in the array, from 0.
PointRows(n) == 0..(n - 1)

\* The triangles over a set of rows, each with its rows in ascending order.
Triangles(rows) ==
    { t \in rows \X rows \X rows : t[1] < t[2] /\ t[2] < t[3] }

RECURSIVE Ascending(_)
Ascending(rows) ==
    IF rows = {} THEN <<>>
    ELSE LET least == CHOOSE r \in rows : \A q \in rows : r <= q
         IN  <<least>> \o Ascending(rows \ {least})

Reversed(seq) == [i \in 1..Len(seq) |-> seq[Len(seq) + 1 - i]]

\* The facets a convex polytope over the rows vs can have: the 4 triangles of
\* a tetrahedron over the first 4, and for each further row, which lies
\* outside one facet of the polytope so far, that facet replaced by the three
\* triangles joining its edges to the row.
RECURSIVE Facets(_)
Facets(vs) ==
    IF Len(vs) = 4 THEN { Triangles({vs[i] : i \in 1..4}) }
    ELSE LET v == vs[Len(vs)]
         IN  UNION { { (fs \ {t}) \cup {<<t[1], t[2], v>>, <<t[1], t[3], v>>,
                                          <<t[2], t[3], v>>} : t \in fs } :
                     fs \in Facets(SubSeq(vs, 1, Len(vs) - 1)) }

\* What scipy's ConvexHull returns for n points, some of which may lie inside
\* the hull: hull.vertices, the rows of at least 4 points in one order or the
\* other, and hull.simplices, 2V - 4 triangles over those rows.
Hulls(n) ==
    UNION { { [vertices |-> vs, simplices |-> fs] :
                vs \in {Ascending(rows), Reversed(Ascending(rows))},
                fs \in Facets(Ascending(rows)) } :
            rows \in { r \in SUBSET PointRows(n) : Cardinality(r) >= 4 } }

\* line 399: the place, counted from 0, of each hull vertex in hull.vertices.
VertexMapFromZero(vertices) ==
    [row \in {vertices[i] : i \in 1..Len(vertices)} |->
        (CHOOSE i \in 1..Len(vertices) : vertices[i] = row) - 1]

\* line 399: vertex_map, the place, counted from 1, of each hull vertex in
\* hull.vertices.
VertexMap(vertices) ==
    [row \in {vertices[i] : i \in 1..Len(vertices)} |->
        CHOOSE i \in 1..Len(vertices) : vertices[i] = row]

\* line 403: [vertex_map.get(idx, 1) for idx in simplex if idx in vertex_map]
FaceIndices(vertex_map, simplex) ==
    LET kept == SelectSeq(simplex, LAMBDA idx : idx \in DOMAIN vertex_map)
    IN  [j \in 1..Len(kept) |-> vertex_map[kept[j]]]

InitHull ==
    /\ Idle
    /\ \E n \in MinHullPoints..MaxHullPoints :
          dec = [pc |-> "hull", npoints |-> n, file |-> <<>>]

\* line 382: ConvexHull raises QhullError on degenerate points, before the
\* file is opened.
HullRaises ==
    /\ dec.pc = "hull"
    /\ dec' = [dec EXCEPT !.pc = "hull_raised"]
    /\ UNCHANGED mainVars

\* lines 382-388: ConvexHull returns a hull and the file is opened.
HullOpen ==
    /\ dec.pc = "hull"
    /\ \E hull \in Hulls(dec.npoints) :
          dec' = [pc |-> "hull_vertices", npoints |-> dec.npoints,
                  file |-> <<[v |-> <<>>, f |-> <<>>]>>,
                  vertices |-> hull.vertices, simplices |-> hull.simplices,
                  vertex_map |-> <<>>]
    /\ UNCHANGED mainVars

\* lines 391-393: a "v" line is written for the next row of hull.vertices.
HullVertexLine ==
    /\ dec.pc = "hull_vertices"
    /\ Len(dec.file[1].v) < Len(dec.vertices)
    /\ dec' = [dec EXCEPT !.file[1].v = Append(@, dec.vertices[Len(@) + 1])]
    /\ UNCHANGED mainVars

\* lines 395-399: the vertices are written; vertex_map is built.
HullVertexMap ==
    /\ dec.pc = "hull_vertices"
    /\ Len(dec.file[1].v) = Len(dec.vertices)
    /\ dec' = [dec EXCEPT !.pc = "hull_faces",
                          !.vertex_map = VertexMap(dec.vertices)]
    /\ UNCHANGED mainVars

\* line 401: the simplex the loop takes next.  The order of hull.simplices is
\* scipy's; the loop treats each simplex alone, and the one order followed
\* here is the ascending one.
NextSimplex(simplices) ==
    CHOOSE s \in simplices :
        \A t \in simplices :
            \/ s[1] < t[1]
            \/ s[1] = t[1] /\ s[2] < t[2]
            \/ s[1] = t[1] /\ s[2] = t[2] /\ s[3] <= t[3]

\* lines 401-405: an "f" line is written for a simplex whose three rows are
\* all in vertex_map.
HullFaceLine ==
    /\ dec.pc = "hull_faces" /\ dec.simplices # {}
    /\ LET simplex == NextSimplex(dec.simplices)
           face_indices == FaceIndices(dec.vertex_map, simplex)
       IN  dec' = [dec EXCEPT !.simplices = @ \ {simplex},
                              !.file[1].f = IF Len(face_indices) = 3
                                            THEN Append(@, face_indices)
                                            ELSE @]
    /\ UNCHANGED mainVars

\* lines 405-407: the simplices are exhausted and the file is closed.
HullClose ==
    /\ dec.pc = "hull_faces" /\ dec.simplices = {}
    /\ dec' = [dec EXCEPT !.pc = "hull_done"]
    /\ UNCHANGED mainVars

NextHull ==
    \/ HullRaises
    \/ HullOpen
    \/ HullVertexLine
    \/ HullVertexMap
    \/ HullFaceLine
    \/ HullClose

SpecHull == InitHull /\ [][NextHull]_vars

(* ------------------------------ claims -------------------------------- *)

\* The task's run is over: it returned, raised, or was killed.
TaskEnded == wpc \in {"done", "crashed", "killed"}

\* delete_scan removed the job (no upload registers it again).
Deleted == upc = "done" /\ scans_db = <<>>

\* A pipeline command of the run exited non-zero.
StageFailed ==
    \E i \in 1..Len(stage_log) :
        stage_log[i].exit = "fail" /\ stage_log[i].cmd \in PipelineStages

\* The metadata carries the three dimensions, all numbers above zero.
PositiveDims(m) ==
    /\ "dimensions" \in DOMAIN m
    /\ \A k \in DimNames :
          /\ k \in DOMAIN m.dimensions
          /\ m.dimensions[k].t = "num"
          /\ m.dimensions[k].v > 0

\* The metadata carries a dimension that is non-numeric or not above zero.
InvalidDims(m) ==
    /\ "dimensions" \in DOMAIN m
    /\ \E k \in DimNames :
          /\ k \in DOMAIN m.dimensions
          /\ (m.dimensions[k].t # "num" \/ m.dimensions[k].v <= 0)

\* The status the job's status record shows.
RecordStatus == StatusIn(status_file)

\* mesh.obj is a box: 8 "v" lines and 6 "f" lines of 4 indices each.
BoxWritten ==
    /\ work.mesh # <<>>
    /\ work.mesh[1].src = "box"
    /\ Len(work.mesh[1].v) = 8
    /\ Len(work.mesh[1].f) = 6
    /\ \A i \in 1..6 : Len(work.mesh[1].f[i]) = 4

\* C1: when a pipeline stage failed during the run and the metadata carries
\* positive numeric dimensions, the job ends completed, never failed, and
\* the mesh written is the box of 8 vertex lines and 6 four-index face lines.
C1_FallbackEndsCompleted ==
    (TaskEnded /\ ~Deleted /\ StageFailed /\ PositiveDims(ps.metadata))
        => (RecordStatus = <<"completed">> /\ BoxWritten)

\* C2: when a pipeline stage failed during the run and the metadata has no
\* dimensions, the job ends failed with error kind ReconstructionFailed and
\* not in a success state.
C2_NoDimensionsEndsFailed ==
    (TaskEnded /\ ~Deleted /\ StageFailed /\ "dimensions" \notin DOMAIN ps.metadata)
        => /\ RecordStatus = <<"failed">>
           /\ status_file.data.error = "ReconstructionFailed"

\* No value follows a terminal status in the log of a store.
TerminalIsLast(log) ==
    \A i \in 1..Len(log) : log[i] \in TerminalStatus => i = Len(log)

\* C3: in the status record, the metadata record and the in-memory registry,
\* a status of completed or failed is never followed by another value.
C3_TerminalStatusIsFinal ==
    /\ TerminalIsLast(held.status_file)
    /\ TerminalIsLast(held.metadata_file)
    /\ TerminalIsLast(held.scans_db)

NonDecreasing(log) ==
    \A i, j \in 1..Len(log) : i < j => log[i] <= log[j]

C5_TerminalShowsFullProgress ==
    (status_file.st = "ok" /\ status_file.data.status \in TerminalStatus)
        => /\ "progress" \in DOMAIN status_file.data
           /\ status_file.data.progress = 100
           /\ status_file.data.stage \in TerminalStatus

\* The stage label of the spec's transition table for an external command.
TableLabel(cmd) ==
    CASE cmd = "feature_extractor" -> "extracting_features"
      [] cmd = "exhaustive_matcher" -> "matching_features"
      [] cmd \in {"mapper", "bundle_adjuster"} -> "reconstructing"
      [] OTHER -> "exporting"

\* C6: while an external command runs, the persisted stage label is the one
\* of that command's stage, every earlier stage being recorded as completed.
C6_StagePersistedBeforeNext ==
    (wpc = "run_stage" /\ ~Deleted)
        => (status_file.st = "ok" /\ status_file.data.stage = TableLabel(stage))

HasResult(d) == "models" \in DOMAIN d \/ "stats" \in DOMAIN d
HasError(d) == "error" \in DOMAIN d

\* C7: a status record with a terminal status holds exactly one of result and
\* error, one with a non-terminal status holds neither.
C7_ResultXorError ==
    status_file.st = "ok" =>
        IF status_file.data.status \in TerminalStatus
        THEN HasResult(status_file.data) # HasError(status_file.data)
        ELSE ~HasResult(status_file.data) /\ ~HasError(status_file.data)

\* C8: a run whose external command never returns still ends with a terminal
\* status in the job's status record.
C8_HungStageEndsTerminal ==
    (wpc = "killed" /\ ~Deleted)
        => (RecordStatus # <<>> /\ RecordStatus[1] \in TerminalStatus)

\* C9: whenever the status record of a completed job reports the result of a
\* run whose mesh is the box, the result's stats carry the fallback flag.
C9_BoxReportedAsFallback ==
    (RecordStatus = <<"completed">> /\ BoxWritten)
        => /\ "fallback_model" \in DOMAIN status_file.data.stats
           /\ status_file.data.stats.fallback_model

\* C10: no job is created, no task scheduled and no mesh written for metadata
\* with a dimension that is non-numeric or not above zero.
C10_InvalidDimensionsRejected ==
    /\ scans_db # <<>> => ~InvalidDims(scans_db[1].metadata)
    /\ task_msg # <<>> => ~InvalidDims(task_msg[1].metadata)
    /\ work.mesh # <<>> => ~InvalidDims(ps.metadata)

\* The last request was a status query answered with the scan's record.
Answered == "uuid" \in DOMAIN resp /\ resp.http = 200

\* C11: no status query finds the status record empty or truncated; every
\* query reads a complete record and none ends in a server error.
C11_QueryReadsCompleteRecord ==
    ~("http" \in DOMAIN resp /\ resp.http = 500)

\* C12: once the upload handler's write after scheduling and all the worker's
\* status writes have finished, the metadata record holds the task id and the
\* worker's latest status and processing_data.
C12_NoLostUpdate ==
    (upc = "done" /\ wpc = "done" /\ ~Deleted)
        => /\ metadata_file.st = "ok"
           /\ metadata_file.data.task_id = TaskId
           /\ metadata_file.data.status = uss.status
           /\ "processing_data" \in DOMAIN metadata_file.data
           /\ metadata_file.data.processing_data = uss.data

\* C13: the stage label and progress a status query returns for the task were
\* written to the job's status record before the query returned them.
C13_VisibleStageIsDurable ==
    (Answered /\ {"stage", "progress"} \subseteq DOMAIN resp.task_info)
        => \E i \in 1..Len(held.durable) :
              /\ held.durable[i].stage = resp.task_info.stage
              /\ held.durable[i].progress = resp.task_info.progress

\* The last request asked to cancel the job.
CancelAsked == "request" \in DOMAIN resp /\ resp.request = "cancel"

\* C14: after a request to cancel the job made while it was reconstructing,
\* the run does not advance to the export or meshing stage and ends failed
\* with error kind Cancelled; after one made on a terminal job the status
\* record still shows a terminal status.
C14_CancelEndsFailedCancelled ==
    (CancelAsked /\ ~Deleted) =>
        /\ resp.phase = "reconstructing" =>
              /\ wpc \notin {"export", "mesh"}
              /\ stage \notin ConverterStages
              /\ TaskEnded => /\ RecordStatus = <<"failed">>
                              /\ status_file.data.error = "Cancelled"
        /\ resp.phase = "terminal" =>
              (RecordStatus # <<>> => RecordStatus[1] \in TerminalStatus)

\* The dict d carries the captured output of an external command.
RawOutput(d) == "error" \in DOMAIN d /\ d.error = ColmapFailure

Leaks(d) == RawOutput(d) \/ ("stats" \in DOMAIN d /\ RawOutput(d.stats))

\* C15: no answer of the status query carries the captured standard error of
\* an external command, in the record's data or in the task's info.
C15_NoRawToolOutput ==
    Answered => ~Leaks(resp.processing_data) /\ ~Leaks(resp.task_info)

\* C16: when the task is scheduled or running, the scan directory and the
\* metadata record exist, and the worker's first status update finds the
\* record there to update.
C16_RecordPersistedBeforeRun ==
    /\ ((task_msg # <<>> \/ wpc # "idle") /\ ~Deleted) =>
          (upload_dir /\ metadata_file.st # "absent")
    /\ (wpc = "uss_meta" /\ uss.site = "init" /\ ~Deleted) => metadata_file.st = "ok"

\* C17: no step changes the metadata held in the registry, and after every
\* step the metadata record, when it holds a document, and the answer of a
\* status query carry the metadata the registry holds.
C17_MetadataImmutable ==
    [][/\ (scans_db # <<>> /\ scans_db' # <<>>) =>
             scans_db'[1].metadata = scans_db[1].metadata
       /\ metadata_file'.st = "ok" =>
             metadata_file'.data.metadata = scans_db'[1].metadata
       /\ ("uuid" \in DOMAIN resp' /\ resp'.http = 200 /\ scans_db' # <<>>) =>
             resp'.metadata = scans_db'[1].metadata]_vars

\* C17, witness: the worker has written its result to the metadata record and
\* a status query has answered with the completed job.
C17_Witness ==
    /\ metadata_file.st = "ok"
    /\ "processing_data" \in DOMAIN metadata_file.data
    /\ metadata_file.data.status = "completed"
    /\ Answered
    /\ resp.status = "completed"
    /\ resp.metadata = ps.metadata

\* The vertices of the box of length l, width w and height h centimetres
\* centred at the origin: every sign combination of (l/2, h/2, w/2) metres.
SignCombinations(l, w, h) ==
    { <<Rat(sx * l, 200), Rat(sy * h, 200), Rat(sz * w, 200)>> :
        sx \in {0 - 1, 1}, sy \in {0 - 1, 1}, sz \in {0 - 1, 1} }

\* C18: for positive numeric length, width and height the fallback mesh path
\* does not fail and writes 8 vertices and 6 faces of 4 indices in 1..8, the
\* vertices being the 8 sign combinations of (length/2, height/2, width/2) in
\* metres.
C18_BoxForPositiveDims ==
    PositiveDims(ps.metadata) =>
        /\ ~FallbackRaises(ps.metadata)
        /\ wpc = "task_result" =>
              /\ result.status = "success"
              /\ BoxWritten
              /\ \A i \in 1..6 : \A j \in 1..4 : work.mesh[1].f[i][j] \in 1..8
              /\ LET d == ps.metadata.dimensions
                     vs == {work.mesh[1].v[i] : i \in 1..8}
                 IN  /\ vs = SignCombinations(d.length.v, d.width.v, d.height.v)
                     /\ Cardinality(vs) = 8

\* C18, witness: the box was written for three different dimensions.
C18_Witness ==
    /\ wpc = "task_result"
    /\ BoxWritten
    /\ ps.metadata.dimensions = Dims(JNum(1), JNum(2), JNum(3))

\* The order of the pipeline's commands.
StageOrder == <<"feature_extractor", "exhaustive_matcher", "mapper", "bundle_adjuster">>

\* The pipeline commands invoked so far, with their exits.
PipelineLog == SelectSeq(stage_log, LAMBDA e : e.cmd \in PipelineStages)

\* C19: the pipeline's commands are invoked in the order feature extraction,
\* matching, sparse reconstruction, bundle adjustment, each at most once and
\* only after every earlier one exited with success; after a failure no
\* command is invoked any more.
C19_StagesInOrder ==
    LET log == PipelineLog
        failed == \E i \in 1..Len(log) : log[i].exit = "fail"
    IN  /\ Len(log) <= 4
        /\ \A i \in 1..Len(log) :
              /\ log[i].cmd = StageOrder[i]
              /\ i < Len(log) => log[i].exit = "ok"
        /\ (wpc = "run_stage" /\ stage \in PipelineStages) =>
              /\ Len(log) < 4
              /\ stage = StageOrder[Len(log) + 1]
        /\ failed => (wpc # "run_stage" /\ Len(stage_log) = Len(log))

\* C19, witness: the four commands ran, each with success.
C19_Witness ==
    /\ Len(PipelineLog) = 4
    /\ \A i \in 1..4 : PipelineLog[i].exit = "ok"

\* C20: when a model_converter invocation failed and the reconstruction left
\* a text model of at least 4 points, the mesh written is built from those
\* points, not the fallback box.
C20_ExportFailureReadsTextModel ==
    (/\ wpc = "task_result"
     /\ \E i \in 1..Len(stage_log) :
            stage_log[i].cmd \in ConverterStages /\ stage_log[i].exit = "fail"
     /\ Usable(work.sparse_txt))
        => (work.mesh # <<>> /\ work.mesh[1].src = "hull")

\* Both model_converter invocations exited with success: the run went on to
\* _create_mesh_from_colmap_model.
MeshingReached ==
    \E i \in 1..Len(stage_log) :
        stage_log[i].cmd = "model_converter_txt" /\ stage_log[i].exit = "ok"

\* C21: when the point set decoded for meshing has 0, 1, 2 or 3 points, no
\* hull mesh is produced and process_scan returns with the dimension-based
\* box written as the job's mesh.
C21_FewPointsFallBack ==
    (/\ wpc = "task_result" /\ ~Deleted /\ MeshingReached
     /\ (DecodedPoints(work) = <<>> \/ DecodedPoints(work)[1] \in 0..3))
        => (ps.hull = "none" /\ BoxWritten)

\* C26: when the hull computation raised on the decoded points, process_scan
\* returns with the complete dimension-based box as the job's mesh, and no
\* hull mesh, whole or partial, is the job's mesh.
C26_DegenerateFallsBack ==
    (wpc = "task_result" /\ ~Deleted /\ ps.hull = "degenerate") => BoxWritten

\* The mesh file holds a whole mesh: the box, or the hull of a usable point set.
CompleteMesh(w) ==
    /\ w.mesh # <<>>
    /\ \/ w.mesh[1].src = "hull" /\ w.mesh[1].npoints >= 4
       \/ w.mesh[1].src = "box" /\ Len(w.mesh[1].v) = 8 /\ Len(w.mesh[1].f) = 6

TerminalWrites == SelectSeq(held.status_file, LAMBDA x : x \in TerminalStatus)

\* C29: a run of the task that has returned has written exactly one terminal
\* status to the job's status record, completed when process_scan returned
\* success and failed otherwise; no run has written both.
C29_OneTerminalStatus ==
    (wpc = "done" /\ ~Deleted) =>
        /\ Len(TerminalWrites) = 1
        /\ TerminalWrites[1] = "completed"
              <=> (result # EmptyDict /\ result.status = "success")

\* C30: once delete_scan has removed a job, nothing of it exists under the
\* upload directory or the processing directory, whatever the job's task does
\* afterwards, and no status query is answered with the job.
C30_DeletedStaysDeleted ==
    Deleted =>
        /\ ~upload_dir /\ photos_zip = <<>>
        /\ metadata_file = Absent /\ status_file = Absent
        /\ work = NoWork
        /\ ~Answered
        /\ ~("http" \in DOMAIN resp /\ resp.http = 500)

\* The lines of the file that do not start with '#' and hold a token.
DataLines(f) == SelectSeq(f, LAMBDA ln : ~ln.hash /\ ln.toks # <<>>)

\* Column c (0-based) of a line, when the line has it.
Column(ln, c) == IF c + 1 <= Len(ln.toks) THEN ln.toks[c + 1] ELSE [t |-> "missing"]

\* The point of columns c, c+1, c+2 (0-based) of each of the lines.
PointsAt(lines, c) ==
    [i \in 1..Len(lines) |->
        <<Column(lines[i], c), Column(lines[i], c + 1), Column(lines[i], c + 2)>>]

Tokens(points) ==
    [i \in 1..Len(points) |-> <<Num(points[i][1][1], points[i][1][2]),
                                Num(points[i][2][1], points[i][2][2]),
                                Num(points[i][3][1], points[i][3][2])>>]

\* C27, as claimed: of a file whose data lines all have columns 0 to 4 the
\* decoder yields one point per line not starting with '#', in file order,
\* made of the line's columns 2, 3 and 4.
C27_ColumnsTwoToFour ==
    (/\ dec.pc = "text_done"
     /\ \A i \in 1..Len(dec.file) : dec.file[i].toks # <<>> => Len(dec.file[i].toks) >= 5)
        => Tokens(dec.points) = PointsAt(DataLines(dec.file), 2)

\* C27, amended: the decoder yields one point per line that does not start
\* with '#' and has at least 4 columns, in file order, made of the line's
\* columns 1, 2 and 3; shorter lines yield nothing.
C27_ColumnsOneToThree ==
    dec.pc = "text_done" =>
        Tokens(dec.points) =
            PointsAt(SelectSeq(DataLines(dec.file), LAMBDA ln : Len(ln.toks) >= 4), 1)

\* C27, witness: a file of a comment, a line of 8 columns and a line of 3 was
\* decoded to one point.
C27_Witness ==
    /\ dec.pc = "text_done"
    /\ Len(dec.file) = 3
    /\ dec.file[1].hash /\ Len(dec.file[2].toks) = 8 /\ Len(dec.file[3].toks) = 3
    /\ Len(dec.points) = 1

\* C22: decoding a binary point file with an end_header line, a declared
\* vertex count N and N complete records of the declared properties yields
\* the N written triples, in order.
C22_BinaryRoundTrip ==
    (/\ dec.pc = "ply_done"
     /\ dec.file.binary /\ dec.file.end_header
     /\ dec.file.records = dec.file.declared)
        => dec.points = [i \in 1..dec.file.declared |-> Triple(i)]

\* C23: the decoder never returns a point set from a file whose header
\* declares more vertices than its body holds complete records.
C23_ShortBodyFails ==
    dec.pc = "ply_done" => dec.file.records >= dec.file.declared

\* C24: the header loop stops at the end of the file: having read nothing
\* once, it does not read again.
C24_HeaderLoopStops ==
    dec.pc = "header" => dec.spins <= 1

\* C25: once the vertex lines of a hull mesh are written, they are no more
\* than the points given, and every face line written holds exactly 3 indices,
\* each the number of a vertex line.
C25_HullMeshWellFormed ==
    dec.pc \in {"hull_faces", "hull_done"} =>
        LET mesh == dec.file[1]
        IN  /\ Len(mesh.v) <= dec.npoints
            /\ \A i \in 1..Len(mesh.f) :
                  /\ Len(mesh.f[i]) = 3
                  /\ \A j \in 1..3 : mesh.f[i][j] \in 1..Len(mesh.v)

\* C25, witness: of 5 points, one inside the hull, a mesh of 4 vertex lines
\* and 4 face lines was written.
C25_Witness ==
    /\ dec.pc = "hull_done"
    /\ dec.npoints = 5
    /\ Len(dec.file[1].v) = 4
    /\ Len(dec.file[1].f) = 4
====
